---- MODULE Spec2Model ----
(***************************************************************************)
(* Model of the shared-memory audio ring of osx-mic-noise-suppressor:      *)
(* SharedAudioBuffer (src/Driver/SharedMemory.hpp), the consumer-side      *)
(* SharedMemoryReader and MicNoiseGateIOHandler (src/Driver/Driver.cpp),   *)
(* and the producer role of spec.md section 4.4, which drives              *)
(* SharedAudioBuffer::write through the POSIX wrappers of shm_bridge.c.    *)
(*                                                                         *)
(* write and read are broken into their atomic loads, their per-frame      *)
(* copies and their final index store, and the two sides interleave        *)
(* freely.                                                                 *)
(***************************************************************************)
EXTENDS Integers, Sequences, FiniteSets

\* ---------------------------------------------------------------- bounds
\* capacity of the ring in frames (4096 in the source, scaled down)
kRingBufferFrames == 2
\* largest frameCount a write or a callback is invoked with
MaxFrameCount == 2
\* total number of frames written over a run, all segment objects together
MaxWritten == 3
\* number of segment objects that can exist at the same time
MaxSegments == 2

\* ------------------------------------------------------ program constants
kChannels == 2
ChannelCount == 2
\* stand-in for 2^64, the width of the uint64_t indices
IndexModulus == 2^30

\* values of the `channels` header a producer may have stored at creation
HeaderChannelValues == {1, kChannels}

\* nullptr, MAP_FAILED
NullPtr == 0
MapFailed == -1
\* content of destination memory the callee has not stored to
Unwritten == -1

Segments == 1..MaxSegments
FrameCounts == 1..MaxFrameCount

\* ------------------------------------------------------------------ state
VARIABLES
    named,      \* segment object bound to kSharedMemoryName, 0 when none
    shm,        \* shm[s]: the SharedAudioBuffer living in segment object s
    mappable,   \* whether an mmap issued by the consumer process succeeds now
    \* producer process
    pPc, pSeg, wFrameCount, wSamples, wWrite, wRead, wPos, wI, wRet,
    \* consumer process: SharedMemoryReader and the callback's frame
    cPc, fd_, buffer_, cOpenFds, cMaps,
    numSamples, samples, shmPtr, rWrite, rRead, rPos, rI, rRet,
    \* observation of the last tryReconnect call / current callback
    trRet, opens, maps, readCalls,
    \* history: samples accepted by writes, samples returned by reads
    accepted, delivered

shared == <<named, shm>>
envVars == <<mappable>>
prodVars == <<pPc, pSeg, wFrameCount, wSamples, wWrite, wRead, wPos, wI, wRet>>
connVars == <<fd_, buffer_, cOpenFds, cMaps>>
cbVars == <<numSamples, samples, shmPtr, rWrite, rRead, rPos, rI, rRet>>
obsVars == <<trRet, opens, maps, readCalls>>
histVars == <<accepted, delivered>>
vars == <<shared, envVars, prodVars, cPc, connVars, cbVars, obsVars, histVars>>

\* ---------------------------------------------------------------- helpers
\* uint64_t subtraction
U64Sub(a, b) == (a - b) % IndexModulus

\* the struct as the creator leaves it: member initialisers of the header,
\* zero-filled sample storage
NewBuffer(ch) ==
    [writeIndex |-> 0, readIndex |-> 0, isActive |-> FALSE, channels |-> ch,
     audioData |-> [k \in 0..(kRingBufferFrames * kChannels - 1) |-> 0]]

\* variant: one published frame is always held back
availableToReadKeepsOne(write, read) == U64Sub(write, read) - 1

availableToRead(write, read) == U64Sub(write, read)

\* variant: the free space is computed without the consumer's position
availableToWriteIgnoresRead(write, read) == kRingBufferFrames

availableToWrite(write, read) == kRingBufferFrames - U64Sub(write, read)

\* slot of a logical frame index
SlotOf(pos) == pos % kRingBufferFrames

\* sample the producer offers for the frame of logical index n - 1, channel ch
SampleOf(n, ch) == n * kChannels + ch

\* the chunk handed to write: fc frames of ch channels, interleaved
Chunk(first, fc, ch) ==
    [k \in 1..(fc * ch) |-> SampleOf(first + ((k - 1) \div ch) + 1, (k - 1) % ch)]

\* std::memset(samples, 0, bytesCount)
MemsetZero(dst) == [k \in 1..Len(dst) |-> 0]

\* variant: the silence loop stops one sample early
ZeroFillShort(dst, n) == [k \in 1..Len(dst) |-> IF k < n THEN 0 ELSE dst[k]]

\* for (i < frameCount * channels) samples[i] = 0.0f
ZeroFill(dst, n) == [k \in 1..Len(dst) |-> IF k <= n THEN 0 ELSE dst[k]]

Init ==
    /\ named = 0 /\ mappable = TRUE
    /\ shm = [s \in Segments |-> NewBuffer(kChannels)]
    /\ pPc = "stopped" /\ pSeg = 0
    /\ wFrameCount = 0 /\ wSamples = <<>> /\ wWrite = 0 /\ wRead = 0
    /\ wPos = 0 /\ wI = 0 /\ wRet = "none"
    /\ cPc = "unborn" /\ fd_ = -1 /\ buffer_ = NullPtr
    /\ cOpenFds = 0 /\ cMaps = 0
    /\ numSamples = 0 /\ samples = <<>> /\ shmPtr = NullPtr
    /\ rWrite = 0 /\ rRead = 0 /\ rPos = 0 /\ rI = 0 /\ rRet = "none"
    /\ trRet = "none" /\ opens = 0 /\ maps = 0 /\ readCalls = 0
    /\ accepted = [s \in Segments |-> <<>>]
    /\ delivered = [s \in Segments |-> <<>>]

\* ------------------------------------------------------- producer process
\* The producer's lifecycle follows spec.md 4.4 and 6 (create-with-size or
\* open, map, publish liveness); its write is SharedAudioBuffer::write.
\* a segment object exists while the name or a mapping refers to it
Live(s, nm, ps, buf) == s = nm \/ s = ps \/ s = buf

\* the kernel frees a segment object with its last reference
Reclaim(sh, nm, ps, buf) ==
    [s \in Segments |-> IF Live(s, nm, ps, buf) THEN sh[s] ELSE NewBuffer(kChannels)]

ReclaimHistory(h, nm, ps, buf) ==
    [s \in Segments |-> IF Live(s, nm, ps, buf) THEN h[s] ELSE <<>>]

ResetWrite ==
    /\ wFrameCount' = 0 /\ wSamples' = <<>> /\ wWrite' = 0 /\ wRead' = 0
    /\ wPos' = 0 /\ wI' = 0

\* shm_open(O_CREAT) + ftruncate + mmap of a name that does not exist yet
ProducerCreate ==
    /\ pPc = "stopped" /\ named = 0
    /\ \E s \in Segments :
         /\ ~Live(s, named, pSeg, buffer_)
         /\ \A t \in Segments : t < s => Live(t, named, pSeg, buffer_)
         /\ \E ch \in HeaderChannelValues :
              shm' = [shm EXCEPT ![s] = NewBuffer(ch)]
         /\ named' = s /\ pSeg' = s
    /\ pPc' = "opened"
    /\ UNCHANGED <<wFrameCount, wSamples, wWrite, wRead, wPos, wI, wRet>>
    /\ UNCHANGED <<envVars, cPc, connVars, cbVars, obsVars, histVars>>

\* shm_open + mmap of the segment object already bound to the name
ProducerOpenExisting ==
    /\ pPc = "stopped" /\ named # 0
    /\ pSeg' = named /\ pPc' = "opened"
    /\ UNCHANGED <<wFrameCount, wSamples, wWrite, wRead, wPos, wI, wRet>>
    /\ UNCHANGED <<shared, envVars, cPc, connVars, cbVars, obsVars, histVars>>

\* isActive = true (release) before the first write
ProducerActivate ==
    /\ pPc = "opened"
    /\ shm' = [shm EXCEPT ![pSeg].isActive = TRUE]
    /\ pPc' = "idle"
    /\ UNCHANGED <<named, pSeg, wFrameCount, wSamples, wWrite, wRead,
                   wPos, wI, wRet>>
    /\ UNCHANGED <<envVars, cPc, connVars, cbVars, obsVars, histVars>>

\* orderly stop: clear isActive, unmap, close
ProducerStop ==
    /\ pPc = "idle"
    /\ shm' = Reclaim([shm EXCEPT ![pSeg].isActive = FALSE], named, 0, buffer_)
    /\ accepted' = ReclaimHistory(accepted, named, 0, buffer_)
    /\ delivered' = ReclaimHistory(delivered, named, 0, buffer_)
    /\ pPc' = "stopped" /\ pSeg' = 0 /\ wRet' = "none"
    /\ ResetWrite
    /\ UNCHANGED <<named, envVars, cPc, connVars, cbVars, obsVars>>

\* the producer process dies at any point; isActive is left as it was
ProducerCrash ==
    /\ pPc # "stopped"
    /\ shm' = Reclaim(shm, named, 0, buffer_)
    /\ accepted' = ReclaimHistory(accepted, named, 0, buffer_)
    /\ delivered' = ReclaimHistory(delivered, named, 0, buffer_)
    /\ pPc' = "stopped" /\ pSeg' = 0 /\ wRet' = "none"
    /\ ResetWrite
    /\ UNCHANGED <<named, envVars, cPc, connVars, cbVars, obsVars>>

\* shm_unlink of the name; mappings of the object stay valid
SegmentUnlink ==
    /\ pPc = "stopped" /\ named # 0
    /\ named' = 0
    /\ shm' = Reclaim(shm, 0, pSeg, buffer_)
    /\ accepted' = ReclaimHistory(accepted, 0, pSeg, buffer_)
    /\ delivered' = ReclaimHistory(delivered, 0, pSeg, buffer_)
    /\ UNCHANGED <<envVars, prodVars, cPc, connVars, cbVars, obsVars>>

RECURSIVE SumWritten(_)
SumWritten(n) == IF n = 0 THEN 0 ELSE shm[n].writeIndex + SumWritten(n - 1)

\* frames published so far in all segment objects
TotalWritten == SumWritten(MaxSegments)

\* bool write(const float* samples, uint64_t frameCount): entry; the chunk
\* carries the samples of the frames that follow the published ones, and
\* MaxWritten caps the growth of writeIndex
WriteCall ==
    /\ pPc = "idle"
    /\ \E fc \in FrameCounts :
         /\ TotalWritten + fc <= MaxWritten
         /\ wFrameCount' = fc
         /\ wSamples' = Chunk(shm[pSeg].writeIndex, fc, shm[pSeg].channels)
    /\ pPc' = "w_avail_w"
    /\ UNCHANGED <<pSeg, wWrite, wRead, wPos, wI, wRet>>
    /\ UNCHANGED <<shared, envVars, cPc, connVars, cbVars, obsVars, histVars>>

\* availableToWrite(): writeIndex.load(relaxed)
WriteAvailLoadWrite ==
    /\ pPc = "w_avail_w"
    /\ wWrite' = shm[pSeg].writeIndex
    /\ pPc' = "w_avail_r"
    /\ UNCHANGED <<pSeg, wFrameCount, wSamples, wRead, wPos, wI, wRet>>
    /\ UNCHANGED <<shared, envVars, cPc, connVars, cbVars, obsVars, histVars>>

\* variant: the capacity test lets one frame too many through
WriteRejectsOffByOne(write, read, fc) == availableToWrite(write, read) + 1 < fc

\* the test of write on the value availableToWrite() computed
WriteRejects(write, read, fc) == availableToWrite(write, read) < fc

\* availableToWrite(): readIndex.load(acquire), then the capacity test
WriteAvailLoadRead ==
    /\ pPc = "w_avail_r"
    /\ wRead' = shm[pSeg].readIndex
    /\ IF WriteRejects(wWrite, shm[pSeg].readIndex, wFrameCount)
         THEN /\ pPc' = "w_ret" /\ wRet' = "false"
         ELSE /\ pPc' = "w_pos" /\ wRet' = wRet
    /\ UNCHANGED <<pSeg, wFrameCount, wSamples, wWrite, wPos, wI>>
    /\ UNCHANGED <<shared, envVars, cPc, connVars, cbVars, obsVars, histVars>>

\* uint64_t writePos = writeIndex.load(relaxed)
WriteLoadPos ==
    /\ pPc = "w_pos"
    /\ wPos' = shm[pSeg].writeIndex /\ wI' = 0
    /\ pPc' = "w_copy"
    /\ UNCHANGED <<pSeg, wFrameCount, wSamples, wWrite, wRead, wRet>>
    /\ UNCHANGED <<shared, envVars, cPc, connVars, cbVars, obsVars, histVars>>

\* slot the i-th frame of a write starting at pos goes to
WriteSlot(pos, i) == SlotOf(pos + i)

\* variant: the inner loop stores the first channel of the frame only
StoreFrameFirstChannel(data, pos, i, ch, src) ==
    [k \in DOMAIN data |->
        IF k = WriteSlot(pos, i) * ch THEN src[i * ch + 1] ELSE data[k]]

\* audioData after the body of the outer loop of write for frame i
StoreFrame(data, pos, i, ch, src) ==
    [k \in DOMAIN data |->
        IF /\ k >= WriteSlot(pos, i) * ch
           /\ k < WriteSlot(pos, i) * ch + ch
        THEN src[i * ch + (k - WriteSlot(pos, i) * ch) + 1]
        ELSE data[k]]

\* the test of the outer loop of write: i < frameCount
WriteLoopTest(i, fc) == i < fc

\* one iteration of the outer loop of write
WriteCopyFrame ==
    /\ pPc = "w_copy"
    /\ shm' = [shm EXCEPT ![pSeg].audioData =
                 StoreFrame(@, wPos, wI, shm[pSeg].channels, wSamples)]
    /\ wI' = wI + 1
    /\ pPc' = IF WriteLoopTest(wI + 1, wFrameCount) THEN "w_copy" ELSE "w_store"
    /\ UNCHANGED <<named, pSeg, wFrameCount, wSamples, wWrite, wRead,
                   wPos, wRet>>
    /\ UNCHANGED <<envVars, cPc, connVars, cbVars, obsVars, histVars>>

\* variant: the index advances by one frame whatever the chunk size
WritePublishOne(pos, fc) == pos + 1

\* value write publishes
WritePublish(pos, fc) == pos + fc

\* writeIndex.store(writePos + frameCount, release); return true
WriteStore ==
    /\ pPc = "w_store"
    /\ shm' = [shm EXCEPT ![pSeg].writeIndex = WritePublish(wPos, wFrameCount)]
    /\ accepted' = [accepted EXCEPT ![pSeg] = @ \o wSamples]
    /\ pPc' = "w_ret" /\ wRet' = "true"
    /\ UNCHANGED <<named, pSeg, wFrameCount, wSamples, wWrite, wRead,
                   wPos, wI>>
    /\ UNCHANGED <<envVars, cPc, connVars, cbVars, obsVars, delivered>>

\* write has returned to the producer's loop; its frame is gone
WriteReturn ==
    /\ pPc = "w_ret"
    /\ pPc' = "idle" /\ wRet' = "none"
    /\ ResetWrite
    /\ UNCHANGED pSeg
    /\ UNCHANGED <<shared, envVars, cPc, connVars, cbVars, obsVars, histVars>>

\* ------------------------------------------------------- consumer process
\* descriptor shm_open returns for segment object s
FdFor(s) == 2 + s

\* variant: the open carries O_CREAT and binds the name when nothing is there
ShmOpenCreates(nm) == IF nm = 0 THEN 1 ELSE nm

\* what kSharedMemoryName is bound to after shm_open(kSharedMemoryName,
\* O_RDWR, 0666): no O_CREAT, no ftruncate, the name is only looked up
ShmOpen(nm) == nm

\* variant: the constructor without its MAP_FAILED branch
ConstructorKeepsMapFailed(nm, canMap) ==
    IF nm = 0
      THEN [fd |-> -1, buffer |-> NullPtr, fds |-> 0, mapsHeld |-> 0]
      ELSE IF canMap
        THEN [fd |-> FdFor(nm), buffer |-> nm, fds |-> 1, mapsHeld |-> 1]
        ELSE [fd |-> FdFor(nm), buffer |-> MapFailed, fds |-> 1, mapsHeld |-> 0]

\* SharedMemoryReader(): fd_ and buffer_ after the constructor, with the
\* descriptors and mappings the process then holds
ConstructorResult(nm, canMap) ==
    IF nm = 0
      THEN [fd |-> -1, buffer |-> NullPtr, fds |-> 0, mapsHeld |-> 0]
      ELSE IF canMap
        THEN [fd |-> FdFor(nm), buffer |-> nm, fds |-> 1, mapsHeld |-> 1]
        ELSE [fd |-> -1, buffer |-> NullPtr, fds |-> 0, mapsHeld |-> 0]

\* static driver instance is created: SharedMemoryReader()
Construct ==
    /\ cPc = "unborn"
    /\ LET r == ConstructorResult(named, mappable) IN
         /\ fd_' = r.fd /\ buffer_' = r.buffer
         /\ cOpenFds' = r.fds /\ cMaps' = r.mapsHeld
    /\ named' = ShmOpen(named)
    /\ cPc' = "idle"
    /\ UNCHANGED <<shm, envVars, prodVars, cbVars, obsVars, histVars>>

\* ~SharedMemoryReader(): munmap what is mapped, close what is open
DestructorResult(fd, buf, fds, mapsHeld) ==
    [fds |-> IF fd # -1 THEN fds - 1 ELSE fds,
     mapsHeld |-> IF buf # NullPtr /\ buf # MapFailed THEN mapsHeld - 1 ELSE mapsHeld]

\* the driver process exits
Destroy ==
    /\ cPc = "idle"
    /\ LET r == DestructorResult(fd_, buffer_, cOpenFds, cMaps) IN
         /\ cOpenFds' = r.fds /\ cMaps' = r.mapsHeld
    /\ fd_' = -1 /\ buffer_' = NullPtr
    /\ cPc' = "unborn"
    /\ shm' = Reclaim(shm, named, pSeg, NullPtr)
    /\ accepted' = ReclaimHistory(accepted, named, pSeg, NullPtr)
    /\ delivered' = ReclaimHistory(delivered, named, pSeg, NullPtr)
    /\ UNCHANGED <<named, envVars, prodVars, cbVars, obsVars>>

\* variant: tryReconnect without its early return on a live handle
TryReconnectAlwaysOpens(fd, buf, fds, mapsHeld, nm, canMap) ==
    IF nm = 0
      THEN [fd |-> -1, buffer |-> buf, fds |-> fds, mapsHeld |-> mapsHeld,
            ret |-> "false", opens |-> 1, maps |-> 0]
      ELSE IF canMap
        THEN [fd |-> FdFor(nm), buffer |-> nm, fds |-> fds + 1,
              mapsHeld |-> mapsHeld + 1, ret |-> "true", opens |-> 1, maps |-> 1]
        ELSE [fd |-> -1, buffer |-> NullPtr, fds |-> fds,
              mapsHeld |-> mapsHeld, ret |-> "false", opens |-> 1, maps |-> 1]

\* variant: the MAP_FAILED branch returns without close(fd_)
TryReconnectLeaksFd(fd, buf, fds, mapsHeld, nm, canMap) ==
    IF buf # NullPtr
      THEN [fd |-> fd, buffer |-> buf, fds |-> fds, mapsHeld |-> mapsHeld,
            ret |-> "true", opens |-> 0, maps |-> 0]
      ELSE IF nm = 0
        THEN [fd |-> -1, buffer |-> buf, fds |-> fds, mapsHeld |-> mapsHeld,
              ret |-> "false", opens |-> 1, maps |-> 0]
        ELSE IF canMap
          THEN [fd |-> FdFor(nm), buffer |-> nm, fds |-> fds + 1,
                mapsHeld |-> mapsHeld + 1, ret |-> "true", opens |-> 1, maps |-> 1]
          ELSE [fd |-> FdFor(nm), buffer |-> NullPtr, fds |-> fds + 1,
                mapsHeld |-> mapsHeld, ret |-> "false", opens |-> 1, maps |-> 1]

\* variant: a failed shm_open is tried a second time within the call
TryReconnectRetries(fd, buf, fds, mapsHeld, nm, canMap) ==
    IF buf # NullPtr
      THEN [fd |-> fd, buffer |-> buf, fds |-> fds, mapsHeld |-> mapsHeld,
            ret |-> "true", opens |-> 0, maps |-> 0]
      ELSE IF nm = 0
        THEN [fd |-> -1, buffer |-> buf, fds |-> fds, mapsHeld |-> mapsHeld,
              ret |-> "false", opens |-> 2, maps |-> 0]
        ELSE IF canMap
          THEN [fd |-> FdFor(nm), buffer |-> nm, fds |-> fds + 1,
                mapsHeld |-> mapsHeld + 1, ret |-> "true", opens |-> 1, maps |-> 1]
          ELSE [fd |-> -1, buffer |-> NullPtr, fds |-> fds,
                mapsHeld |-> mapsHeld, ret |-> "false", opens |-> 1, maps |-> 1]

\* bool tryReconnect(): the fields, the held resources, the return value and
\* the number of shm_open and mmap calls made; shm_open(O_RDWR) finds the
\* object bound to the name or fails
TryReconnectResult(fd, buf, fds, mapsHeld, nm, canMap) ==
    IF buf # NullPtr
      THEN [fd |-> fd, buffer |-> buf, fds |-> fds, mapsHeld |-> mapsHeld,
            ret |-> "true", opens |-> 0, maps |-> 0]
      ELSE IF nm = 0
        THEN [fd |-> -1, buffer |-> buf, fds |-> fds, mapsHeld |-> mapsHeld,
              ret |-> "false", opens |-> 1, maps |-> 0]
        ELSE IF canMap
          THEN [fd |-> FdFor(nm), buffer |-> nm, fds |-> fds + 1,
                mapsHeld |-> mapsHeld + 1, ret |-> "true", opens |-> 1, maps |-> 1]
          ELSE [fd |-> -1, buffer |-> NullPtr, fds |-> fds,
                mapsHeld |-> mapsHeld, ret |-> "false", opens |-> 1, maps |-> 1]

\* effect of one tryReconnect() call on the consumer
TryReconnect ==
    LET r == TryReconnectResult(fd_, buffer_, cOpenFds, cMaps, named, mappable) IN
      /\ fd_' = r.fd /\ buffer_' = r.buffer
      /\ cOpenFds' = r.fds /\ cMaps' = r.mapsHeld
      /\ trRet' = r.ret
      /\ opens' = opens + r.opens /\ maps' = maps + r.maps
      /\ named' = IF r.opens > 0 THEN ShmOpen(named) ELSE named

\* tryReconnect() called on the idle reader (it is a public method)
TryReconnectCall ==
    /\ cPc = "idle"
    /\ cPc' = "tr_call"
    /\ UNCHANGED <<shared, envVars, prodVars, connVars, cbVars, obsVars, histVars>>

TryReconnectRun ==
    /\ cPc = "tr_call"
    /\ TryReconnect
    /\ cPc' = "tr_ret"
    /\ UNCHANGED <<shm, envVars, prodVars, cbVars, readCalls, histVars>>

TryReconnectReturn ==
    /\ cPc = "tr_ret"
    /\ cPc' = "idle"
    /\ trRet' = "none" /\ opens' = 0 /\ maps' = 0
    /\ UNCHANGED <<shared, envVars, prodVars, connVars, cbVars, readCalls, histVars>>

\* the environment flips whether the consumer's next mmap can succeed; it
\* matters only while there is a segment to open and the reader holds no
\* mapping
EnvMapToggle ==
    /\ buffer_ = NullPtr /\ named # 0
    /\ mappable' = ~mappable
    /\ UNCHANGED <<shared, prodVars, cPc, connVars, cbVars, obsVars, histVars>>

\* OnReadClientInput is entered with a destination of numSamples frames
CbCall ==
    /\ cPc = "idle"
    /\ \E n \in FrameCounts :
         /\ numSamples' = n
         /\ samples' = [k \in 1..(n * ChannelCount) |-> Unwritten]
    /\ cPc' = "cb_check"
    /\ UNCHANGED <<shmPtr, rWrite, rRead, rPos, rI, rRet>>
    /\ UNCHANGED <<shared, envVars, prodVars, connVars, obsVars, histVars>>

\* if (!shmReader_.buffer()) shmReader_.tryReconnect();
CbReconnect ==
    /\ cPc = "cb_check"
    /\ IF buffer_ = NullPtr
         THEN TryReconnect
         ELSE UNCHANGED <<named, connVars, trRet, opens, maps>>
    /\ cPc' = "cb_active"
    /\ UNCHANGED <<shm, envVars, prodVars, cbVars, readCalls, histVars>>

\* variant: the callback does not look at isActive
CallsReadUngated(ptr, active) == ptr # NullPtr

\* the test of the callback: shm && shm->isActive.load(acquire)
CallsRead(ptr, active) == ptr # NullPtr /\ active

\* shm = shmReader_.buffer(); the isActive test; the else branch's memset
CbLoadActive ==
    /\ cPc = "cb_active"
    /\ shmPtr' = buffer_
    /\ IF CallsRead(buffer_, IF buffer_ = NullPtr THEN FALSE ELSE shm[buffer_].isActive)
         THEN /\ cPc' = "r_avail_w" /\ readCalls' = readCalls + 1
              /\ samples' = samples
         ELSE /\ cPc' = "cb_ret" /\ readCalls' = readCalls
              /\ samples' = MemsetZero(samples)
    /\ trRet' = "none" /\ opens' = 0 /\ maps' = 0
    /\ UNCHANGED <<numSamples, rWrite, rRead, rPos, rI, rRet>>
    /\ UNCHANGED <<shared, envVars, prodVars, connVars, histVars>>

\* availableToRead(): writeIndex.load(acquire)
ReadAvailLoadWrite ==
    /\ cPc = "r_avail_w"
    /\ rWrite' = shm[shmPtr].writeIndex
    /\ cPc' = "r_avail_r"
    /\ UNCHANGED <<numSamples, samples, shmPtr, rRead, rPos, rI, rRet>>
    /\ UNCHANGED <<shared, envVars, prodVars, connVars, obsVars, histVars>>

\* variant: read goes on to copy whatever the ring holds
ReadNeverUnderruns(write, read, fc) == FALSE

\* the test of read on the value availableToRead() computed
ReadUnderruns(write, read, fc) == availableToRead(write, read) < fc

\* availableToRead(): readIndex.load(relaxed), the test, the silence loop
ReadAvailLoadRead ==
    /\ cPc = "r_avail_r"
    /\ rRead' = shm[shmPtr].readIndex
    /\ IF ReadUnderruns(rWrite, shm[shmPtr].readIndex, numSamples)
         THEN /\ samples' = ZeroFill(samples, numSamples * shm[shmPtr].channels)
              /\ rRet' = "false" /\ cPc' = "cb_underrun"
         ELSE /\ samples' = samples /\ rRet' = rRet /\ cPc' = "r_pos"
    /\ UNCHANGED <<numSamples, shmPtr, rWrite, rPos, rI>>
    /\ UNCHANGED <<shared, envVars, prodVars, connVars, obsVars, histVars>>

\* read returned false: std::memset(samples, 0, bytesCount)
CbUnderrun ==
    /\ cPc = "cb_underrun"
    /\ samples' = MemsetZero(samples)
    /\ cPc' = "cb_ret"
    /\ UNCHANGED <<numSamples, shmPtr, rWrite, rRead, rPos, rI, rRet>>
    /\ UNCHANGED <<shared, envVars, prodVars, connVars, obsVars, histVars>>

\* uint64_t readPos = readIndex.load(relaxed)
ReadLoadPos ==
    /\ cPc = "r_pos"
    /\ rPos' = shm[shmPtr].readIndex /\ rI' = 0
    /\ cPc' = "r_copy"
    /\ UNCHANGED <<numSamples, samples, shmPtr, rWrite, rRead, rRet>>
    /\ UNCHANGED <<shared, envVars, prodVars, connVars, obsVars, histVars>>

\* variant: the read loop starts one slot late
ReadSlotShifted(pos, i) == SlotOf(pos + i + 1)

\* slot the i-th frame of a read starting at pos comes from
ReadSlot(pos, i) == SlotOf(pos + i)

\* the destination after the body of the outer loop of read for frame i
LoadFrame(dst, data, pos, i, ch) ==
    [k \in 1..Len(dst) |->
        IF k - 1 >= i * ch /\ k - 1 < i * ch + ch
        THEN data[ReadSlot(pos, i) * ch + (k - 1 - i * ch)]
        ELSE dst[k]]

\* variant: the loop runs while i <= frameCount
ReadLoopOvershoots(i, fc) == i <= fc

\* the test of the outer loop of read: i < frameCount
ReadLoopTest(i, fc) == i < fc

\* one iteration of the outer loop of read
ReadCopyFrame ==
    /\ cPc = "r_copy"
    /\ samples' = LoadFrame(samples, shm[shmPtr].audioData, rPos, rI,
                            shm[shmPtr].channels)
    /\ rI' = rI + 1
    /\ cPc' = IF ReadLoopTest(rI + 1, numSamples) THEN "r_copy" ELSE "r_store"
    /\ UNCHANGED <<numSamples, shmPtr, rWrite, rRead, rPos, rRet>>
    /\ UNCHANGED <<shared, envVars, prodVars, connVars, obsVars, histVars>>

\* variant: the index moves back by the frames read
ReadPublishRewinds(pos, fc) == pos - fc

\* value read publishes
ReadPublish(pos, fc) == pos + fc

\* readIndex.store(readPos + frameCount, release); return true
ReadStore ==
    /\ cPc = "r_store"
    /\ shm' = [shm EXCEPT ![shmPtr].readIndex = ReadPublish(rPos, numSamples)]
    /\ delivered' = [delivered EXCEPT ![shmPtr] =
                       @ \o SubSeq(samples, 1, numSamples * shm[shmPtr].channels)]
    /\ rRet' = "true"
    /\ cPc' = "cb_ret"
    /\ UNCHANGED <<named, numSamples, samples, shmPtr, rWrite, rRead, rPos, rI>>
    /\ UNCHANGED <<envVars, prodVars, connVars, obsVars, accepted>>

\* OnReadClientInput returns; its frame is gone
CbReturn ==
    /\ cPc = "cb_ret"
    /\ cPc' = "idle"
    /\ numSamples' = 0 /\ samples' = <<>> /\ shmPtr' = NullPtr
    /\ rWrite' = 0 /\ rRead' = 0 /\ rPos' = 0 /\ rI' = 0 /\ rRet' = "none"
    /\ readCalls' = 0
    /\ UNCHANGED <<shared, envVars, prodVars, connVars, trRet, opens, maps, histVars>>

\* ------------------------------------------------------------ the system
Write ==
    \/ WriteCall \/ WriteAvailLoadWrite \/ WriteAvailLoadRead
    \/ WriteLoadPos \/ WriteCopyFrame \/ WriteStore \/ WriteReturn

Producer ==
    \/ ProducerCreate \/ ProducerOpenExisting \/ ProducerActivate
    \/ ProducerStop \/ ProducerCrash \/ SegmentUnlink
    \/ Write

Callback ==
    \/ CbReconnect \/ CbLoadActive \/ ReadAvailLoadWrite \/ ReadAvailLoadRead
    \/ CbUnderrun \/ ReadLoadPos \/ ReadCopyFrame \/ ReadStore \/ CbReturn

Consumer ==
    \/ Construct \/ Destroy \/ CbCall \/ Callback
    \/ TryReconnectCall \/ TryReconnectRun \/ TryReconnectReturn

Next == Producer \/ Consumer \/ EnvMapToggle

Spec == Init /\ [][Next]_vars

\* the host audio framework keeps invoking the callback of a loaded driver
\* and every invocation runs to its return
FairSpec ==
    /\ Spec
    /\ WF_vars(Construct)
    /\ SF_vars(CbCall)
    /\ WF_vars(Callback)
    /\ WF_vars(TryReconnectRun \/ TryReconnectReturn)

\* in addition, a running producer's loop keeps calling write and every call
\* runs to its return
FairBothSpec == FairSpec /\ WF_vars(Write)

\* ------------------------------------------------------------ properties
IsPrefix(a, b) == Len(a) <= Len(b) /\ SubSeq(b, 1, Len(a)) = a

AllZero(seq, n) == \A k \in 1..n : seq[k] = 0

\* a step of write: the producer moves, and not by dying
WritePcs == {"w_avail_w", "w_avail_r", "w_pos", "w_copy", "w_store", "w_ret", "idle"}
WriteStep == prodVars' # prodVars /\ pPc' \in WritePcs

\* a step of the callback or of the read it calls
CallbackStep == <<cPc, cbVars>>' # <<cPc, cbVars>>

\* C1: in every reachable state, whatever the interleaving of the steps of
\* write and read, 0 <= writeIndex - readIndex <= capacityFrames.
C1_IndexDistance ==
    \A s \in Segments :
        /\ shm[s].writeIndex - shm[s].readIndex >= 0
        /\ shm[s].writeIndex - shm[s].readIndex <= kRingBufferFrames

\* the ring is full after the indices passed the end of the storage, while
\* the consumer is in the middle of copying frames out
C1_Witness ==
    /\ cPc = "r_copy"
    /\ shm[shmPtr].readIndex > 0
    /\ shm[shmPtr].writeIndex - shm[shmPtr].readIndex = kRingBufferFrames

\* C2: the samples returned by successful reads are, in order, a prefix of
\* the samples accepted by successful writes, wrap of the slots included.
C2_DeliveredPrefixOfAccepted ==
    \A s \in Segments :
        /\ IsPrefix(delivered[s], accepted[s])
        /\ Len(delivered[s]) = shm[s].readIndex * shm[s].channels
        /\ Len(accepted[s]) = shm[s].writeIndex * shm[s].channels

\* a successful read whose frames straddle the end of the storage returned
C2_Witness ==
    /\ cPc = "cb_ret" /\ rRet = "true"
    /\ numSamples >= 2
    /\ SlotOf(rPos) + numSamples > kRingBufferFrames
    /\ delivered[shmPtr] = accepted[shmPtr]

\* C3: every invocation of the callback returns with all numSamples frames
\* of the destination written, in every connection state and for every
\* header found in the segment: either the next numSamples frames of the
\* ring in order, or zeros throughout.
C3_CallbackFillsDestination ==
    cPc = "cb_ret" =>
        /\ Len(samples) = numSamples * ChannelCount
        /\ \A k \in 1..Len(samples) : samples[k] # Unwritten
        /\ \/ AllZero(samples, Len(samples))
           \/ /\ rRet = "true"
              /\ samples = Chunk(rPos, numSamples, ChannelCount)

\* C4: a write that finds availableToWrite() < frameCount returns false, and
\* no step of that invocation changes the indices or a stored sample.
C4_RejectedWriteMutatesNothing ==
    [][/\ (pPc \in {"idle", "w_avail_w", "w_avail_r"} /\ WriteStep)
          => (shm' = shm /\ accepted' = accepted)
       /\ (/\ pPc = "w_avail_r" /\ WriteStep
           /\ kRingBufferFrames - (shm[pSeg].writeIndex - shm[pSeg].readIndex)
                < wFrameCount)
          => (pPc' = "w_ret" /\ wRet' = "false")
       /\ (pPc = "w_ret" /\ wRet = "false" /\ WriteStep)
          => (shm' = shm /\ accepted' = accepted)]_vars

\* a chunk of two frames was rejected by a ring holding unread frames and
\* one free slot
C4_Witness ==
    /\ pPc = "w_ret" /\ wRet = "false" /\ wFrameCount = 2
    /\ shm[pSeg].writeIndex - shm[pSeg].readIndex = kRingBufferFrames - 1

\* C5: a read that finds availableToRead() < frameCount returns false with
\* frameCount frames of zeros in the destination, and no step of that
\* invocation changes the indices, the stored samples or what was delivered.
C5_UnderrunReadIsAllOrNothing ==
    [][/\ (cPc \in {"r_avail_w", "r_avail_r"} /\ CallbackStep)
          => (shm' = shm /\ delivered' = delivered)
       /\ (/\ cPc = "r_avail_r" /\ CallbackStep
           /\ rWrite - shm[shmPtr].readIndex < numSamples)
          => /\ cPc' = "cb_underrun" /\ rRet' = "false"
             /\ AllZero(samples', numSamples * shm[shmPtr].channels)]_vars

\* the example of the spec: three frames written, two read, and a second
\* read of two finds one frame and returns silence with readIndex still 2
C5_Witness ==
    /\ cPc = "cb_underrun" /\ rRet = "false" /\ numSamples = 2
    /\ shm[shmPtr].channels = 2
    /\ shm[shmPtr].writeIndex = 3 /\ shm[shmPtr].readIndex = 2
    /\ Len(delivered[shmPtr]) = 4
    /\ AllZero(samples, 4)

\* C6: a write that finds availableToWrite() >= frameCount goes on to copy,
\* and its store advances writeIndex by exactly frameCount, leaves readIndex
\* alone, returns true and raises availableToRead() by frameCount.
C6_AcceptedWriteAdvancesByFrameCount ==
    [][/\ (/\ pPc = "w_avail_r" /\ WriteStep
           /\ kRingBufferFrames - (shm[pSeg].writeIndex - shm[pSeg].readIndex)
                >= wFrameCount)
          => pPc' = "w_pos"
       /\ (pPc = "w_store" /\ WriteStep)
          => /\ pPc' = "w_ret" /\ wRet' = "true"
             /\ shm'[pSeg].writeIndex = shm[pSeg].writeIndex + wFrameCount
             /\ shm'[pSeg].readIndex = shm[pSeg].readIndex
             /\ shm'[pSeg].writeIndex - shm'[pSeg].readIndex
                  = (shm[pSeg].writeIndex - shm[pSeg].readIndex) + wFrameCount]_vars

\* a chunk of two frames was accepted past the end of the storage and
\* filled the ring
C6_Witness ==
    /\ pPc = "w_ret" /\ wRet = "true" /\ wFrameCount = 2
    /\ shm[pSeg].writeIndex - shm[pSeg].readIndex = kRingBufferFrames
    /\ shm[pSeg].writeIndex > kRingBufferFrames

\* C7: a callback that finds isActive false on a mapped buffer writes zeros
\* to the whole destination, does not call read, and changes nothing in the
\* segment.
C7_InactiveProducerGatesRead ==
    [][(/\ cPc = "cb_active" /\ CallbackStep
        /\ buffer_ # NullPtr /\ ~shm[buffer_].isActive)
       => /\ cPc' = "cb_ret" /\ readCalls' = 0
          /\ AllZero(samples', Len(samples')) /\ Len(samples') = numSamples * ChannelCount
          /\ shm' = shm /\ delivered' = delivered]_vars

\* a gated callback returned silence although unread frames were in the ring
C7_Witness ==
    /\ cPc = "cb_ret" /\ shmPtr # NullPtr /\ readCalls = 0
    /\ ~shm[shmPtr].isActive
    /\ shm[shmPtr].writeIndex - shm[shmPtr].readIndex > 0
    /\ AllZero(samples, Len(samples))

\* a tryReconnect() call runs: from the callback or directly
ReconnectStep ==
    /\ cPc \in {"cb_check", "tr_call"} /\ cPc' # cPc

\* an active producer's ring holds a full callback's worth of unread frames
\* while a connected consumer is running
Starved ==
    /\ cPc # "unborn" /\ buffer_ # NullPtr
    /\ pSeg # 0 /\ shm[pSeg].isActive
    /\ shm[pSeg].writeIndex - shm[pSeg].readIndex >= MaxFrameCount

\* C8: a consumer that stays running and keeps being invoked does not emit
\* silence for ever once a producer is active and writing again on the
\* segment name: the frames of the running producer get delivered.
C8_ConsumerSurvivesProducerRestart == Starved ~> ~Starved

\* C9: a tryReconnect() that fails leaves the reader disconnected with a
\* null handle and no descriptor, as before the call; one made when the
\* segment exists and can be mapped connects; and if the segment exists and
\* stays mappable for ever, an invoked consumer is eventually connected.
C9_ReconnectWhileDisconnected ==
    /\ [][(ReconnectStep /\ buffer_ = NullPtr)
          => IF named # 0 /\ mappable
               THEN /\ trRet' = "true" /\ opens' = opens + 1
                    /\ buffer_' = named /\ fd_' # -1
               ELSE /\ trRet' = "false" /\ opens' = opens + 1
                    /\ buffer_' = NullPtr /\ fd_' = -1
                    /\ fd_ = -1 /\ cOpenFds' = cOpenFds /\ cMaps' = cMaps
                    /\ cOpenFds = 0 /\ UNCHANGED shared]_vars
    /\ (<>[](named # 0 /\ mappable)) => <>(buffer_ # NullPtr)

\* the tryReconnect() of a callback found the segment, which a producer had
\* created and written to in the meantime, and connected the reader
C9_Witness ==
    /\ cPc = "cb_active" /\ trRet = "true" /\ opens = 1
    /\ buffer_ = named /\ fd_ = FdFor(named) /\ cOpenFds = 1
    /\ shm[buffer_].writeIndex > 0

\* C10: tryReconnect() on a connected reader returns true, calls neither
\* shm_open nor mmap, and leaves descriptor, handle and segment as they are.
C10_ReconnectWhenConnectedIsNoOp ==
    [][(cPc = "tr_call" /\ cPc' # cPc /\ buffer_ # NullPtr)
       => /\ trRet' = "true" /\ opens' = opens /\ maps' = maps
          /\ UNCHANGED <<connVars, shared>>]_vars

\* tryReconnect() returned on a reader connected to a ring holding frames
C10_Witness ==
    /\ cPc = "tr_ret" /\ trRet = "true" /\ opens = 0 /\ maps = 0
    /\ buffer_ # NullPtr /\ fd_ = FdFor(buffer_)
    /\ shm[buffer_].isActive
    /\ shm[buffer_].writeIndex - shm[buffer_].readIndex > 0

\* a step of the consumer process: constructor, destructor, tryReconnect,
\* the callback and the read it calls
ConsumerStep == <<cPc, connVars, cbVars, obsVars>>' # <<cPc, connVars, cbVars, obsVars>>

\* C11: no step of the consumer (construction, tryReconnect, callback,
\* destruction) changes what the segment name is bound to; the name changes
\* only by a step of a stopped producer, and it becomes bound only when a
\* producer creates the segment and maps it.
C11_ConsumerNeverCreatesOrUnlinks ==
    [][/\ ConsumerStep => named' = named
       /\ named' # named
          => /\ pPc = "stopped" /\ ~ConsumerStep
             /\ named' # 0 => (named = 0 /\ pPc' = "opened" /\ pSeg' = named')]_vars

\* a tryReconnect() found no segment, made its shm_open and failed, and
\* there is still no segment
C11_Witness ==
    /\ cPc = "tr_ret" /\ trRet = "false" /\ opens = 1 /\ maps = 0
    /\ named = 0 /\ pPc = "stopped" /\ fd_ = -1

\* segment objects that exist: the name or a mapping refers to them
LiveNow(s) == Live(s, named, pSeg, buffer_)

\* C12: in a segment object that exists before and after a step, writeIndex
\* changes only by the index store of the producer's write and only upwards,
\* readIndex changes only by the index store of the consumer's read and only
\* upwards; no step of the callback changes writeIndex or a stored sample,
\* and no step of write changes readIndex.
C12_SingleWriterMonotonicCounters ==
    [][\A s \in Segments : (LiveNow(s) /\ LiveNow(s)') =>
         /\ shm'[s].writeIndex # shm[s].writeIndex
            => /\ pPc = "w_store" /\ WriteStep /\ pSeg = s /\ ~ConsumerStep
               /\ shm'[s].writeIndex > shm[s].writeIndex
         /\ shm'[s].readIndex # shm[s].readIndex
            => /\ cPc = "r_store" /\ CallbackStep /\ shmPtr = s
               /\ prodVars' = prodVars
               /\ shm'[s].readIndex > shm[s].readIndex
         /\ CallbackStep
            => /\ shm'[s].writeIndex = shm[s].writeIndex
               /\ shm'[s].audioData = shm[s].audioData
         /\ WriteStep => shm'[s].readIndex = shm[s].readIndex]_vars

\* a write and a read on the same ring have both just stored their index
C12_Witness ==
    /\ pPc = "w_ret" /\ wRet = "true"
    /\ cPc = "cb_ret" /\ rRet = "true"
    /\ pSeg = shmPtr
    /\ shm[pSeg].readIndex > 0
    /\ shm[pSeg].writeIndex > shm[pSeg].readIndex

\* positions inside an invocation of the callback / of write
CallbackPcs == {"cb_check", "cb_active", "r_avail_w", "r_avail_r", "cb_underrun",
                "r_pos", "r_copy", "r_store", "cb_ret"}
WriteRunPcs == {"w_avail_w", "w_avail_r", "w_pos", "w_copy", "w_store", "w_ret"}

\* upper bound of the steps the running invocation still has to take
CallbackRank ==
    CASE cPc = "cb_check" -> numSamples + 7
      [] cPc = "cb_active" -> numSamples + 6
      [] cPc = "r_avail_w" -> numSamples + 5
      [] cPc = "r_avail_r" -> numSamples + 4
      [] cPc = "r_pos" -> numSamples + 3
      [] cPc = "r_copy" -> numSamples - rI + 2
      [] cPc \in {"r_store", "cb_underrun"} -> 2
      [] cPc = "cb_ret" -> 1
      [] OTHER -> 0

WriteRank ==
    CASE pPc = "w_avail_w" -> wFrameCount + 5
      [] pPc = "w_avail_r" -> wFrameCount + 4
      [] pPc = "w_pos" -> wFrameCount + 3
      [] pPc = "w_copy" -> wFrameCount - wI + 2
      [] pPc = "w_store" -> 2
      [] pPc = "w_ret" -> 1
      [] OTHER -> 0

\* C13: read, write and the callback never wait: in every reachable state,
\* whatever the other process has done or left half done, the next step of a
\* running invocation can be taken, and every own step brings the invocation
\* strictly closer to its return, which is at most frameCount + 7 steps
\* (callback) or frameCount + 5 steps (write) from its entry.
C13_NonBlocking ==
    /\ [](cPc \in CallbackPcs => (ENABLED Callback /\ CallbackRank >= 1))
    /\ [](pPc \in WriteRunPcs => (ENABLED Write /\ WriteRank >= 1))
    /\ [][/\ (cPc \in CallbackPcs /\ CallbackStep)
             => (CallbackRank' < CallbackRank /\ CallbackRank <= MaxFrameCount + 7)
          /\ (pPc \in WriteRunPcs /\ WriteStep)
             => (WriteRank' < WriteRank /\ WriteRank <= MaxFrameCount + 5)]_vars

\* a callback ran to the end of a successful read while the producer sat in
\* the middle of a write with its index store still to come
C13_Witness ==
    /\ cPc = "cb_ret" /\ rRet = "true"
    /\ pPc = "w_store" /\ pSeg = shmPtr

\* frames published and not yet consumed in segment object s
Unread(s) == shm[s].writeIndex - shm[s].readIndex

\* the consumer is connected to a ring whose isActive is true and on which
\* no write is or will be running: its producer is gone, or sits outside
\* write
StaleProducer ==
    /\ cPc # "unborn" /\ buffer_ # NullPtr /\ shm[buffer_].isActive
    /\ (pSeg # buffer_ \/ pPc \in {"opened", "idle"})

\* no read is copying frames out or has just succeeded, and a callback about
\* to return hands back zeros only
SilenceOnly ==
    /\ cPc \notin {"r_pos", "r_copy", "r_store"}
    /\ cPc = "cb_ret" => (rRet # "true" /\ AllZero(samples, Len(samples)))

\* C14: the unread frames of a ring grow only by the index store of a write;
\* a successful read of frameCount frames takes exactly frameCount of them
\* and never more than there are, so from availableToRead() = a at most
\* a / frameCount reads succeed once writes have stopped; no consumer step
\* changes isActive or drops the mapping of a running reader; and when the
\* producer stops writing for ever with isActive left true, the consumer ends
\* up returning zeros on every invocation with readIndex standing still.
C14_StaleLivenessDegradesToSilence ==
    /\ [][/\ \A s \in Segments : (LiveNow(s) /\ LiveNow(s)') =>
               /\ Unread(s)' > Unread(s) => (pPc = "w_store" /\ WriteStep)
               /\ ConsumerStep => shm'[s].isActive = shm[s].isActive
          /\ (cPc = "r_store" /\ CallbackStep)
               => /\ numSamples >= 1
                  /\ Unread(shmPtr)' = Unread(shmPtr) - numSamples
                  /\ Unread(shmPtr)' >= 0
          /\ (ConsumerStep /\ buffer_ # NullPtr /\ cPc' # "unborn")
               => (buffer_' = buffer_ /\ fd_' = fd_)]_vars
    /\ (<>[]StaleProducer) => <>[](SilenceOnly /\ StaleProducer)

\* the producer died leaving isActive true; the consumer had read from the
\* ring, and a callback asking for two frames finds one and returns silence
C14_Witness ==
    /\ cPc = "cb_ret" /\ rRet = "false" /\ numSamples = 2
    /\ pPc = "stopped" /\ shm[shmPtr].isActive
    /\ shm[shmPtr].readIndex > 0 /\ Unread(shmPtr) = 1
    /\ AllZero(samples, Len(samples))

\* the slot of logical frame index n in segment object s holds every
\* channel sample of that frame
FrameStored(s, n) ==
    \A c \in 0..(shm[s].channels - 1) :
        shm[s].audioData[SlotOf(n) * shm[s].channels + c] = SampleOf(n + 1, c)

\* C15: every published and unread frame sits complete in its slot; the
\* index store of a write publishes only frames whose samples are all in
\* place; and every frame the read loop copies out has a logical index below
\* the writeIndex value the consumer loaded, which is a value that was
\* published, and is copied complete.
C15_PublicationOrdering ==
    /\ [](\A s \in Segments :
            \A n \in shm[s].readIndex..(shm[s].writeIndex - 1) : FrameStored(s, n))
    /\ [][/\ (pPc = "w_store" /\ WriteStep)
             => \A n \in wPos..(wPos + wFrameCount - 1) : FrameStored(pSeg, n)
          /\ (cPc = "r_copy" /\ CallbackStep)
             => /\ rPos + rI < rWrite
                /\ rWrite <= shm[shmPtr].writeIndex
                /\ FrameStored(shmPtr, rPos + rI)
                /\ \A c \in 0..(shm[shmPtr].channels - 1) :
                     samples'[rI * shm[shmPtr].channels + c + 1]
                         = SampleOf(rPos + rI + 1, c)]_vars

\* the read loop has copied every frame up to the writeIndex it loaded while
\* the producer has the next frame stored and not yet published
C15_Witness ==
    /\ cPc = "r_store" /\ rPos + numSamples = rWrite
    /\ pPc = "w_store" /\ pSeg = shmPtr
    /\ wPos = rWrite /\ shm[shmPtr].writeIndex = rWrite

\* slots a write / a read in progress stores to / copies from
WriteSlots == {WriteSlot(wPos, i) : i \in 0..(wFrameCount - 1)}
ReadSlots == {ReadSlot(rPos, i) : i \in 0..(numSamples - 1)}

\* write is in its copy loop or before its index store; read likewise
WriteInProgress == pPc \in {"w_copy", "w_store"}
ReadInProgress == cPc \in {"r_copy", "r_store"}

\* C16: an iteration of the copy loop of write never stores into a slot that
\* holds a published frame of logical index >= readIndex, nor into a slot of
\* the read in progress on the same ring; and whenever a write and a read are
\* both in progress on a ring, the slots of the one and of the other are
\* disjoint.
C16_NoOverwriteOfUnreadData ==
    /\ [][(pPc = "w_copy" /\ WriteStep)
           => /\ \A n \in shm[pSeg].readIndex..(shm[pSeg].writeIndex - 1) :
                    SlotOf(n) # WriteSlot(wPos, wI)
              /\ (ReadInProgress /\ shmPtr = pSeg)
                    => WriteSlot(wPos, wI) \notin ReadSlots]_vars
    /\ []((WriteInProgress /\ ReadInProgress /\ shmPtr = pSeg)
            => WriteSlots \cap ReadSlots = {})

\* a write that has wrapped to the start of the storage and a read further
\* up in the storage are in their copy loops on the same ring
C16_Witness ==
    /\ pPc = "w_copy" /\ cPc = "r_copy" /\ pSeg = shmPtr
    /\ wPos >= kRingBufferFrames
    /\ SlotOf(wPos) < SlotOf(rPos)

\* C17: a callback is entered with no attempt counted; its first step makes
\* exactly one shm_open (and at most one mmap) when the reader has no buffer
\* at entry, and none when it has one, leaving descriptor and handle alone;
\* no later step of the invocation makes an attempt, touches the reader or
\* goes back to the reconnect test, whether the attempt failed or not; and a
\* later invocation entered without a buffer attempts again.
C17_OneReconnectAttemptPerCallback ==
    /\ [](cPc = "cb_check" => (opens = 0 /\ maps = 0))
    /\ [](cPc \in CallbackPcs => (opens <= 1 /\ maps <= opens))
    /\ [][/\ (cPc = "cb_check" /\ CallbackStep)
             => IF buffer_ # NullPtr
                  THEN opens' = 0 /\ maps' = 0 /\ UNCHANGED connVars
                  ELSE opens' = 1
          /\ (cPc \in (CallbackPcs \ {"cb_check"}) /\ CallbackStep)
             => /\ opens' <= opens /\ maps' <= maps
                /\ UNCHANGED connVars
                /\ cPc' # "cb_check"]_vars

\* the one attempt of a callback opened the segment, failed to map it, and
\* the callback went on without a buffer
C17_Witness ==
    /\ cPc = "cb_active" /\ trRet = "false" /\ opens = 1 /\ maps = 1
    /\ buffer_ = NullPtr /\ fd_ = -1 /\ named # 0

\* C18: after the constructor, after every tryReconnect() and after the
\* destructor: buffer_ is non-null exactly when fd_ is a descriptor, buffer_
\* is never MAP_FAILED, the process holds exactly the descriptor in fd_ and
\* the mapping in buffer_ and nothing else, and a destroyed reader holds
\* nothing.
C18_HandleInvariant ==
    /\ (buffer_ # NullPtr) <=> (fd_ # -1)
    /\ buffer_ # MapFailed
    /\ cOpenFds = (IF fd_ # -1 THEN 1 ELSE 0)
    /\ cMaps = (IF buffer_ # NullPtr THEN 1 ELSE 0)
    /\ cPc = "unborn" => (cOpenFds = 0 /\ cMaps = 0)

\* a direct tryReconnect() opened the segment, failed to map it and gave the
\* descriptor back
C18_Witness ==
    /\ cPc = "tr_ret" /\ trRet = "false" /\ opens = 1 /\ maps = 1
    /\ named # 0 /\ fd_ = -1 /\ buffer_ = NullPtr /\ cOpenFds = 0

\* an active producer and a running consumer are attached to the same ring
JointlyRunning ==
    /\ cPc # "unborn" /\ buffer_ # NullPtr /\ buffer_ = pSeg
    /\ pPc \notin {"stopped", "opened"} /\ shm[pSeg].isActive

\* the ring the producer is attached to holds no unread frame
RingDrained == pSeg # 0 /\ Unread(pSeg) = 0

\* chunk size w and request size r that together fit the ring plus one
FitsTogether(w, r) == w + r <= kRingBufferFrames + 1

\* C19: for chunk sizes w and request sizes r with w + r <= capacity + 1, no
\* ring is ever in a state where availableToWrite() < w and
\* availableToRead() < r; and when producer and consumer stay attached to
\* the same ring and both keep being scheduled, the consumer asking for one
\* frame at a time and the producer offering chunks of any size up to the
\* capacity, neither side stalls: every frame the producer has to offer gets
\* accepted and every accepted frame gets read.
C19_NoJointStall ==
    /\ [](\A s \in Segments : \A w \in FrameCounts : \A r \in FrameCounts :
            FitsTogether(w, r) =>
              ~(/\ availableToWrite(shm[s].writeIndex, shm[s].readIndex) < w
                /\ availableToRead(shm[s].writeIndex, shm[s].readIndex) < r))
    /\ (<>[](JointlyRunning /\ numSamples <= 1))
          => <>[](RingDrained /\ TotalWritten = MaxWritten)

\* a chunk of one frame was rejected by a full ring while a read of as many
\* frames as the ring holds is copying them out
C19_Witness ==
    /\ JointlyRunning
    /\ pPc = "w_ret" /\ wRet = "false" /\ wFrameCount = 1
    /\ cPc = "r_copy" /\ numSamples = kRingBufferFrames
    /\ Unread(pSeg) = kRingBufferFrames
====
